---- MODULE Spec2Model ----
(***************************************************************************)
(* A model of mcg.py: the cron-like posting thread (cron_function) and its *)
(* controller (start_cron_job / stop_cron_job), the one-shot "generate and *)
(* publish" path, limit_post_length, generate_social_content_with_retry     *)
(* and the weekly-plan handler with what the handlers keep in               *)
(* st.session_state.                                                        *)
(*                                                                         *)
(* mcg.py is a Streamlit script: every click runs the file from its first   *)
(* line in a new namespace, so lines 65-68 bind cron_stop_event,            *)
(* cron_thread, cron_topic and cron_keywords anew for each run.  The        *)
(* functions of a run, and a thread whose target is one of them, act on the *)
(* globals of the namespace of that run; the threads live in the process.   *)
(*                                                                         *)
(* Python values: None is the empty tuple and a present value v is <<v>>;  *)
(* a str that the code slices or measures is a sequence of one-character   *)
(* strings; a str that the code only passes along is a TLA+ string.        *)
(***************************************************************************)
EXTENDS Integers, Sequences, FiniteSets, TLC

(* ------------------------------------------------------------------ *)
(* Bounds of the model                                                 *)
(* ------------------------------------------------------------------ *)
\* Thread objects that may exist at once.
MaxThreads == 2
\* Channels in one selection.
MaxChannels == 2
\* Characters by which a text may exceed its channel's limit.
MaxOver == 2
\* Length of the long error text.
LongError == 160

(* ------------------------------------------------------------------ *)
(* Program constants                                                   *)
(* ------------------------------------------------------------------ *)
Interval == 1800
SliceLen == 5
Slices == Interval \div SliceLen
\* line 246: retries=3
Retries == 3

None == <<>>
Some(v) == <<v>>

\* Python truthiness of an Optional[str] (None and "" are falsy).
Truthy(opt) == opt # None /\ opt[1] # ""

(* ------------------------------------------------------------------ *)
(* Inputs the operator may type into the form                          *)
(* ------------------------------------------------------------------ *)
TopicInputs == {"", "t1"}
KeywordInputs == {<< >>, <<"k1">>}
TitleInputs == {"", "My Title"}

\* What the text backend may answer to the title prompt: an error, a message
\* without content, or text (here  "T"  in quotes and  T  before a line end).
TitleResponses == {<<"error">>, <<"ok", None>>,
                   <<"ok", Some(<<" ", "\"", "T", "\"", "\n">>)>>,
                   <<"ok", Some(<<"T", "\r", "\n">>)>>}
\* What it may answer to the body prompt: an error, no content, "", or text.
BodyResponses == {<<"error">>, <<"ok", None>>, <<"ok", Some("")>>, <<"ok", Some("<p>body</p>")>>}
\* What the CMS may answer: a status code (with or without a JSON body), or
\* a transport failure.
PublishResponses == {<<"status", 201, TRUE>>, <<"status", 201, FALSE>>,
                     <<"status", 200, TRUE>>, <<"status", 500, TRUE>>,
                     <<"exception", 0, FALSE>>}

VARIABLES
    cron_stop_event,   \* namespace -> threading.Event: TRUE when set
    cron_thread,       \* namespace -> None or Some(tid)
    cron_topic,        \* namespace -> None or Some(topic)
    cron_keywords,     \* namespace -> None or Some(keyword list)
    threads,           \* tid -> the Thread object and the frame of cron_function
    ctl,               \* browser session -> the handler its script run is
                       \* executing, and the namespace of that run
    hist               \* history of the run, read by the properties only:
                       \*   last: "start" or "stop", the last of the two calls
                       \*     that was issued ("none" before the first);
                       \*   after_idle_stop: "stopped" after a stop() issued with no
                       \*     live worker, "started" once a start() has returned
                       \*     after it, "no" after any other stop();
                       \*   stop_in_call, stop_in_sleep: a stop() was issued while
                       \*     a worker was inside a generation or publish call
                       \*     (in its sleep loop), and no start() was issued
                       \*     since;
                       \*   refused: the st.error of a missing input that the last
                       \*     click produced ("start" line 342, "manual" line 354,
                       \*     "fields" line 380, "channels" line 382, "plan"
                       \*     line 296), "no" when it produced none

VARIABLES
    soc,               \* the "Generate Social Media Posts" handler and the frame of
                       \* generate_social_content_with_retry
    lim,               \* one call of limit_post_length: its arguments and result
    wk,                \* the "Generate Weekly Content Plan" handler
    session_state      \* st.session_state: the keys "weekly_plan" and
                       \* "social_content" (None while the key is absent)

cronVars == <<cron_stop_event, cron_thread, cron_topic, cron_keywords, threads, ctl, hist>>
otherVars == <<soc, lim, wk, session_state>>
vars == <<cron_stop_event, cron_thread, cron_topic, cron_keywords, threads, ctl, hist,
          soc, lim, wk, session_state>>

Tids == 1..MaxThreads

\* The browser sessions of the runs with two operators.
RaceCtls == {1, 2}

\* The namespaces that may exist at once: one for each thread and one for
\* the last run of each session.
Nids == 1..(MaxThreads + Cardinality(RaceCtls))

\* A Thread object that does not exist (a free slot).  ns is the namespace of
\* the run that defined the thread's target (cron_function.__globals__);
\* a_topic and a_keywords are the arguments of the call being made; title_job
\* keeps, until the body call of the iteration has returned, the arguments its
\* title call was given; attempts counts the calls of publish_blog_post begun
\* in the iteration; iterated tells that the thread has begun a title call.
NoThread == [pc |-> "none", ns |-> 0, i |-> 0, blog_title |-> << >>, blog_content |-> None,
             a_topic |-> None, a_keywords |-> None, fresh |-> FALSE, title_job |-> None,
             attempts |-> 0, iterated |-> FALSE]
\* threading.Thread(target=cron_function): constructed, not started.
NewThread == [NoThread EXCEPT !.pc = "created"]
\* A thread whose run() has ended: its frame is gone.
DeadThread == [NoThread EXCEPT !.pc = "done"]

\* A session whose script run has ended (or has shown the page and no more);
\* ns is the namespace of its last run.
IdleCtl == [pc |-> "idle", ns |-> 0, topic |-> "", keywords |-> << >>, title |-> "",
            content |-> None, published |-> None]

\* The browser session of the runs with one operator; the social and the
\* weekly-plan handlers are those of session 1.
Ctls == {1}

\* Where a worker is inside an iteration (lines 176-189), and where it is in
\* the sleep loop (lines 192-196).
IterationPcs == {"L179", "L179k", "title_call", "L181", "L181k", "content_call",
                 "L183", "publish_call"}
SleepPcs == {"L193", "L196"}
\* Where a worker waits for generate_blog_title, generate_blog_content or
\* publish_blog_post to return.
CallPcs == {"title_call", "content_call", "publish_call"}

\* Thread.is_alive(): started and run() not yet ended.
is_alive(t) == t.pc \notin {"none", "created", "done"}

LiveWorkers == {w \in Tids : is_alive(threads[w])}

(* ------------------------------------------------------------------ *)
(* generate_blog_title, generate_blog_content, publish_blog_post       *)
(* ------------------------------------------------------------------ *)
\* What str.strip() removes (str.isspace()), as far as a TLA+ string can hold
\* it: the characters from U+2000 on (U+2000-U+200A, U+2028, U+2029, U+202F,
\* U+205F, U+3000) cannot be written in a module.
Whitespace == {" ", "\n", "\t", "\r", "\f", "", "", "", "", "",
               "", " ", " "}

\* s.lstrip(chars), s.rstrip(chars), s.strip(chars) on a sequence of characters.
RECURSIVE LStripChars(_, _)
LStripChars(s, chars) ==
    IF s # << >> /\ Head(s) \in chars THEN LStripChars(Tail(s), chars) ELSE s

RECURSIVE RStripChars(_, _)
RStripChars(s, chars) ==
    IF s # << >> /\ s[Len(s)] \in chars
    THEN RStripChars(SubSeq(s, 1, Len(s) - 1), chars) ELSE s

StripChars(s, chars) == RStripChars(LStripChars(s, chars), chars)

\* str.strip()
Strip(s) == StripChars(s, Whitespace)

FallbackTitle == <<"U", "n", "t", "i", "t", "l", "e", "d", " ", "B", "l", "o", "g", " ", "P", "o", "s", "t">>

\* ', '.join(keywords) raises TypeError when keywords is None (outside the try).
JoinRaises(kw) == kw = None

\* lines 131-141: message.content.strip().strip('"'); any exception (a backend
\* error, or .strip() on a None content) gives the fallback title.
generate_blog_title(resp) ==
    IF resp[1] = "error" \/ resp[2] = None THEN FallbackTitle
    ELSE StripChars(Strip(resp[2][1]), {"\""})

\* lines 111-121: the message content as it is (None included), None on error.
generate_blog_content(resp) ==
    IF resp[1] = "error" THEN None ELSE resp[2]

\* lines 152-166
publish_blog_post(resp) ==
    IF resp[1] = "exception" THEN FALSE
    ELSE IF resp[2] = 201 THEN resp[3]   \* response.json() raising is caught: False
    ELSE FALSE

(* ------------------------------------------------------------------ *)
(* The script run that a click begins: lines 65-68                     *)
(* ------------------------------------------------------------------ *)
SetCtl(c, rec) == ctl' = [ctl EXCEPT ![c] = rec]
SetThread(w, rec) == threads' = [threads EXCEPT ![w] = rec]

\* Where a session is inside start_cron_job.
StartPcs == {"L203", "L204", "L205", "L207", "L208", "L209", "L210"}

\* The sessions that are inside start_cron_job.
Starting == {d \in DOMAIN ctl : ctl[d].pc \in StartPcs}

\* The namespaces that something refers to when session c begins a run: those
\* of the last runs of the other sessions, and those of the functions that
\* are the target of a thread that has not ended.
Kept(c) ==
    {ctl[d].ns : d \in DOMAIN ctl \ {c}}
       \cup {threads[w].ns : w \in {x \in Tids : threads[x].pc \notin {"none", "done"}}}

\* The namespace of the run that session c begins: a new one, under the first
\* identifier that is free.
NewNs(c) == CHOOSE n \in Nids \ Kept(c) : \A m \in Nids \ Kept(c) : n <= m

\* A global after the run has bound it to value in its namespace; a
\* namespace that nothing refers to any more is gone.
Rebound(c, global, value) ==
    [m \in Nids |-> IF m \in Kept(c) THEN global[m] ELSE value]

\* A Thread object that has ended and that no namespace refers to any more
\* is collected.
Collect(c) ==
    [w \in Tids |-> IF threads[w].pc = "done" /\ threads[w].ns \notin Kept(c)
                    THEN NoThread ELSE threads[w]]

\* lines 66-68: cron_thread = None, cron_topic = None, cron_keywords = None
Script_L66_68(c) ==
    /\ cron_thread' = Rebound(c, cron_thread, None)
    /\ cron_topic' = Rebound(c, cron_topic, None)
    /\ cron_keywords' = Rebound(c, cron_keywords, None)
    /\ threads' = Collect(c)

\* lines 65-68: the four globals of the run; cron_stop_event is a new Event,
\* which is clear.
Script_L65_68(c) ==
    /\ cron_stop_event' = Rebound(c, cron_stop_event, FALSE)
    /\ Script_L66_68(c)

\* The session when the run of its last click has ended.
Ended(c) == [IdleCtl EXCEPT !.ns = ctl[c].ns]

(* ------------------------------------------------------------------ *)
(* start_cron_job, stop_cron_job                                       *)
(* ------------------------------------------------------------------ *)
\* Variant of the test of line 207 with a plausible slip: the test is
\* inverted, a thread is made when one is alive.
ShouldSpawnIfAlive(n) ==
    cron_thread[n] # None /\ is_alive(threads[cron_thread[n][1]])

\* line 207: cron_thread is None or not cron_thread.is_alive(), in namespace n
ShouldSpawn(n) ==
    cron_thread[n] = None \/ ~is_alive(threads[cron_thread[n][1]])

FreeTids == {w \in Tids : threads[w].pc = "none"}

\* Variant: "Start Cron Job" looks at the topic only.
StartCronButtonTopicOnly(c, topic, keywords) ==
    /\ ctl[c].pc = "idle"
    /\ Script_L65_68(c)
    /\ IF topic = ""
       THEN /\ SetCtl(c, [IdleCtl EXCEPT !.ns = NewNs(c)])
            /\ hist' = [hist EXCEPT !.refused = "start"]
       ELSE /\ Cardinality(FreeTids) > Cardinality(Starting)
            /\ SetCtl(c, [IdleCtl EXCEPT !.pc = "L203", !.ns = NewNs(c),
                                         !.topic = topic, !.keywords = keywords])
            /\ hist' = [hist EXCEPT !.last = "start", !.stop_in_call = FALSE,
                                    !.stop_in_sleep = FALSE, !.refused = "no",
                                    !.after_idle_stop = IF @ = "started" THEN "no" ELSE @]
    /\ UNCHANGED otherVars

\* lines 65-68 and 340-345, "Start Cron Job": the script runs in a new
\* namespace; an empty topic or keyword list is refused (line 342), otherwise
\* start_cron_job(blog_topic, keywords) is entered.  A click is accepted only
\* while a Thread object is left for it.
StartCronButton(c, topic, keywords) ==
    /\ ctl[c].pc = "idle"
    /\ Script_L65_68(c)
    /\ IF topic = "" \/ keywords = << >>
       THEN /\ SetCtl(c, [IdleCtl EXCEPT !.ns = NewNs(c)])
            /\ hist' = [hist EXCEPT !.refused = "start"]
       ELSE /\ Cardinality(FreeTids) > Cardinality(Starting)
            /\ SetCtl(c, [IdleCtl EXCEPT !.pc = "L203", !.ns = NewNs(c),
                                         !.topic = topic, !.keywords = keywords])
            /\ hist' = [hist EXCEPT !.last = "start", !.stop_in_call = FALSE,
                                    !.stop_in_sleep = FALSE, !.refused = "no",
                                    !.after_idle_stop = IF @ = "started" THEN "no" ELSE @]
    /\ UNCHANGED otherVars

\* line 203: cron_topic = topic
Start_L203(c) ==
    /\ ctl[c].pc = "L203"
    /\ cron_topic' = [cron_topic EXCEPT ![ctl[c].ns] = Some(ctl[c].topic)]
    /\ SetCtl(c, [ctl[c] EXCEPT !.pc = "L204"])
    /\ UNCHANGED <<cron_stop_event, cron_thread, cron_keywords, threads, hist>>
    /\ UNCHANGED otherVars

\* line 204: cron_keywords = keywords
Start_L204(c) ==
    /\ ctl[c].pc = "L204"
    /\ cron_keywords' = [cron_keywords EXCEPT ![ctl[c].ns] = Some(ctl[c].keywords)]
    /\ SetCtl(c, [ctl[c] EXCEPT !.pc = "L205"])
    /\ UNCHANGED <<cron_stop_event, cron_thread, cron_topic, threads, hist>>
    /\ UNCHANGED otherVars

\* line 205: cron_stop_event.clear()
Start_L205(c) ==
    /\ ctl[c].pc = "L205"
    /\ cron_stop_event' = [cron_stop_event EXCEPT ![ctl[c].ns] = FALSE]
    /\ SetCtl(c, [ctl[c] EXCEPT !.pc = "L207"])
    /\ UNCHANGED <<cron_thread, cron_topic, cron_keywords, threads, hist>>
    /\ UNCHANGED otherVars

\* start_cron_job returns to the handler (line 345), which shows "Cron job
\* started!"; the run ends.
StartReturns(c) ==
    /\ SetCtl(c, Ended(c))
    /\ hist' = [hist EXCEPT !.after_idle_stop = IF @ = "stopped" THEN "started" ELSE @]

\* line 207: the test; nothing to do when the thread is alive.
Start_L207(c) ==
    /\ ctl[c].pc = "L207"
    /\ IF ShouldSpawn(ctl[c].ns)
       THEN /\ SetCtl(c, [ctl[c] EXCEPT !.pc = "L208"])
            /\ UNCHANGED hist
       ELSE StartReturns(c)
    /\ UNCHANGED <<cron_stop_event, cron_thread, cron_topic, cron_keywords, threads>>
    /\ UNCHANGED otherVars

\* line 208: cron_thread = threading.Thread(target=cron_function, daemon=True);
\* the target is the cron_function of the run.
Start_L208(c) ==
    /\ ctl[c].pc = "L208"
    /\ FreeTids # {}
    /\ LET w == CHOOSE x \in FreeTids : \A y \in FreeTids : x <= y
       IN /\ cron_thread' = [cron_thread EXCEPT ![ctl[c].ns] = Some(w)]
          /\ SetThread(w, [NewThread EXCEPT !.ns = ctl[c].ns])
    /\ SetCtl(c, [ctl[c] EXCEPT !.pc = "L209"])
    /\ UNCHANGED <<cron_stop_event, cron_topic, cron_keywords, hist>>
    /\ UNCHANGED otherVars

\* line 209: cron_thread.start(); start() on a thread that was started before
\* raises RuntimeError, which ends the run.
Start_L209(c) ==
    /\ ctl[c].pc = "L209"
    /\ cron_thread[ctl[c].ns] # None
    /\ LET w == cron_thread[ctl[c].ns][1]
       IN IF threads[w].pc = "created"
          THEN /\ SetThread(w, [threads[w] EXCEPT !.pc = "L175"])
               /\ SetCtl(c, [ctl[c] EXCEPT !.pc = "L210"])
          ELSE /\ SetCtl(c, Ended(c))
               /\ UNCHANGED threads
    /\ UNCHANGED <<cron_stop_event, cron_thread, cron_topic, cron_keywords, hist>>
    /\ UNCHANGED otherVars

\* line 210: logging.info("Cron job thread started."); start_cron_job returns.
Start_L210(c) ==
    /\ ctl[c].pc = "L210"
    /\ StartReturns(c)
    /\ UNCHANGED <<cron_stop_event, cron_thread, cron_topic, cron_keywords, threads>>
    /\ UNCHANGED otherVars

\* lines 212-217: cron_stop_event.set(), on the Event of namespace n
stop_cron_job(event, n) == [event EXCEPT ![n] = TRUE]

\* lines 65-68 and 347-349, "Stop Cron Job": the script runs in a new
\* namespace and stop_cron_job() sets the Event of that run.
StopCronButton(c) ==
    /\ ctl[c].pc = "idle"
    /\ cron_stop_event' = stop_cron_job(Rebound(c, cron_stop_event, FALSE), NewNs(c))
    /\ Script_L66_68(c)
    /\ SetCtl(c, [IdleCtl EXCEPT !.ns = NewNs(c)])
    /\ hist' = [last |-> "stop",
                after_idle_stop |-> IF LiveWorkers = {} THEN "stopped" ELSE "no",
                stop_in_call |-> hist.stop_in_call
                                 \/ \E w \in Tids : threads[w].pc \in CallPcs,
                stop_in_sleep |-> hist.stop_in_sleep
                                  \/ \E w \in Tids : threads[w].pc \in SleepPcs,
                refused |-> "no"]
    /\ UNCHANGED otherVars

\* lines 65-68 and 352-357, "Generate and Publish Blog Post": the script runs
\* in a new namespace; a missing field is refused, otherwise the body is
\* requested from the backend.
ManualGenerateButton(c, title, topic, keywords) ==
    /\ ctl[c].pc = "idle"
    /\ Script_L65_68(c)
    /\ IF title = "" \/ topic = "" \/ keywords = << >>
       THEN /\ SetCtl(c, [IdleCtl EXCEPT !.ns = NewNs(c)])
            /\ hist' = [hist EXCEPT !.refused = "manual"]
       ELSE /\ SetCtl(c, [IdleCtl EXCEPT !.pc = "L357", !.ns = NewNs(c), !.title = title,
                                         !.topic = topic, !.keywords = keywords])
            /\ hist' = [hist EXCEPT !.refused = "no"]
    /\ UNCHANGED otherVars

\* lines 357-365: generate_blog_content returns; publish only a truthy body.
ManualContentReturns(c, resp) ==
    /\ ctl[c].pc = "L357"
    /\ LET blog_content == generate_blog_content(resp)
       IN IF Truthy(blog_content)
          THEN SetCtl(c, [ctl[c] EXCEPT !.pc = "L359", !.content = blog_content])
          ELSE SetCtl(c, Ended(c))
    /\ UNCHANGED <<cron_stop_event, cron_thread, cron_topic, cron_keywords, threads, hist>>
    /\ UNCHANGED otherVars

\* line 359: published = publish_blog_post(blog_title, blog_content)
ManualPublishReturns(c, resp) ==
    /\ ctl[c].pc = "L359"
    /\ SetCtl(c, [ctl[c] EXCEPT !.pc = "L360", !.published = Some(publish_blog_post(resp))])
    /\ UNCHANGED <<cron_stop_event, cron_thread, cron_topic, cron_keywords, threads, hist>>
    /\ UNCHANGED otherVars

\* lines 360-363: the result is shown (st.success or st.error); the run ends.
ManualPublishShown(c) ==
    /\ ctl[c].pc = "L360"
    /\ SetCtl(c, Ended(c))
    /\ UNCHANGED <<cron_stop_event, cron_thread, cron_topic, cron_keywords, threads, hist>>
    /\ UNCHANGED otherVars

(* ------------------------------------------------------------------ *)
(* cron_function, one step per statement or call; the globals it names *)
(* are those of the namespace it was defined in (threads[w].ns)        *)
(* ------------------------------------------------------------------ *)
\* The thread's run() ends: is_alive() turns False and the frame is released.
ThreadEnds(w) == SetThread(w, [DeadThread EXCEPT !.ns = threads[w].ns])

\* Variant: a thread that has made no title call yet sleeps the interval
\* first.
Cron_L175SleepsFirst(w) ==
    /\ threads[w].pc = "L175"
    /\ IF cron_stop_event[threads[w].ns]
       THEN ThreadEnds(w)
       ELSE SetThread(w, IF threads[w].iterated
                         THEN [threads[w] EXCEPT !.pc = "L179", !.attempts = 0]
                         ELSE [threads[w] EXCEPT !.pc = "L193"])
    /\ UNCHANGED <<cron_stop_event, cron_thread, cron_topic, cron_keywords, ctl, hist>>
    /\ UNCHANGED otherVars

\* line 175: while not cron_stop_event.is_set(); when it is set the loop is
\* left and cron_function returns.
Cron_L175(w) ==
    /\ threads[w].pc = "L175"
    /\ IF cron_stop_event[threads[w].ns]
       THEN ThreadEnds(w)
       ELSE SetThread(w, [threads[w] EXCEPT !.pc = "L179", !.attempts = 0])
    /\ UNCHANGED <<cron_stop_event, cron_thread, cron_topic, cron_keywords, ctl, hist>>
    /\ UNCHANGED otherVars

\* Variant: the job is looked up in the namespace of the last run of the
\* session, not in the function's own.
Cron_ReadTopicOfLastRun(w) ==
    /\ threads[w].pc \in {"L179", "L181"}
    /\ SetThread(w, [threads[w] EXCEPT !.a_topic = cron_topic[ctl[1].ns],
                        !.pc = IF @ = "L179" THEN "L179k" ELSE "L181k"])
    /\ UNCHANGED <<cron_stop_event, cron_thread, cron_topic, cron_keywords, ctl, hist>>
    /\ UNCHANGED otherVars

\* lines 179 and 181: the argument cron_topic is read
Cron_ReadTopic(w) ==
    /\ threads[w].pc \in {"L179", "L181"}
    /\ SetThread(w, [threads[w] EXCEPT !.a_topic = cron_topic[threads[w].ns],
                        !.pc = IF @ = "L179" THEN "L179k" ELSE "L181k"])
    /\ UNCHANGED <<cron_stop_event, cron_thread, cron_topic, cron_keywords, ctl, hist>>
    /\ UNCHANGED otherVars

\* line 179: cron_keywords is read and generate_blog_title is called
Cron_CallTitle(w) ==
    /\ threads[w].pc = "L179k"
    /\ LET keywords == cron_keywords[threads[w].ns]
       IN IF JoinRaises(keywords)
          THEN ThreadEnds(w)
          ELSE SetThread(w, [threads[w] EXCEPT !.a_keywords = keywords,
                                !.pc = "title_call", !.fresh = FALSE, !.iterated = TRUE,
                                !.title_job = Some(<<threads[w].a_topic, keywords>>)])
    /\ UNCHANGED <<cron_stop_event, cron_thread, cron_topic, cron_keywords, ctl, hist>>
    /\ UNCHANGED otherVars

\* Variant: an exception inside generate_blog_title reaches cron_function.
Cron_TitleReturnsRaises(w, resp) ==
    /\ threads[w].pc = "title_call"
    /\ IF resp[1] = "error" \/ resp[2] = None
       THEN ThreadEnds(w)
       ELSE SetThread(w, [threads[w] EXCEPT !.blog_title = generate_blog_title(resp),
                             !.a_topic = None, !.a_keywords = None, !.pc = "L181"])
    /\ UNCHANGED <<cron_stop_event, cron_thread, cron_topic, cron_keywords, ctl, hist>>
    /\ UNCHANGED otherVars

\* line 179: blog_title = the result of generate_blog_title
Cron_TitleReturns(w, resp) ==
    /\ threads[w].pc = "title_call"
    /\ SetThread(w, [threads[w] EXCEPT !.blog_title = generate_blog_title(resp),
                        !.a_topic = None, !.a_keywords = None, !.pc = "L181"])
    /\ UNCHANGED <<cron_stop_event, cron_thread, cron_topic, cron_keywords, ctl, hist>>
    /\ UNCHANGED otherVars

\* line 181: cron_keywords is read and generate_blog_content is called
Cron_CallContent(w) ==
    /\ threads[w].pc = "L181k"
    /\ LET keywords == cron_keywords[threads[w].ns]
       IN IF JoinRaises(keywords)
          THEN ThreadEnds(w)
          ELSE SetThread(w, [threads[w] EXCEPT !.a_keywords = keywords,
                                               !.pc = "content_call"])
    /\ UNCHANGED <<cron_stop_event, cron_thread, cron_topic, cron_keywords, ctl, hist>>
    /\ UNCHANGED otherVars

\* line 181: blog_content = the result of generate_blog_content
Cron_ContentReturns(w, resp) ==
    /\ threads[w].pc = "content_call"
    /\ SetThread(w, [threads[w] EXCEPT !.blog_content = generate_blog_content(resp),
                        !.a_topic = None, !.a_keywords = None, !.title_job = None,
                        !.fresh = resp[1] = "ok", !.pc = "L183"])
    /\ UNCHANGED <<cron_stop_event, cron_thread, cron_topic, cron_keywords, ctl, hist>>
    /\ UNCHANGED otherVars

\* Variant: the body is published without being tested.
CronPublishesAlways(blog_content) == TRUE

\* line 183: if blog_content
CronPublishes(blog_content) == Truthy(blog_content)

\* lines 183-189: publish_blog_post is called, or the failure is logged and
\* the sleep loop of line 192 is entered.
Cron_L183(w) ==
    /\ threads[w].pc = "L183"
    /\ SetThread(w, IF CronPublishes(threads[w].blog_content)
                    THEN [threads[w] EXCEPT !.pc = "publish_call", !.i = 0,
                                            !.attempts = @ + 1]
                    ELSE [threads[w] EXCEPT !.pc = "L193", !.i = 0])
    /\ UNCHANGED <<cron_stop_event, cron_thread, cron_topic, cron_keywords, ctl, hist>>
    /\ UNCHANGED otherVars

\* Variant: a publish that returns False is attempted again at once.
Cron_PublishReturnsRetries(w, resp) ==
    /\ threads[w].pc = "publish_call"
    /\ IF publish_blog_post(resp)
       THEN SetThread(w, [threads[w] EXCEPT !.pc = "L193", !.i = 0])
       ELSE SetThread(w, [threads[w] EXCEPT !.attempts = @ + 1])
    /\ UNCHANGED <<cron_stop_event, cron_thread, cron_topic, cron_keywords, ctl, hist>>
    /\ UNCHANGED otherVars

\* Variant: a failed publish raises out of cron_function instead of returning False.
Cron_PublishReturnsRaises(w, resp) ==
    /\ threads[w].pc = "publish_call"
    /\ IF publish_blog_post(resp)
       THEN SetThread(w, [threads[w] EXCEPT !.pc = "L193", !.i = 0])
       ELSE ThreadEnds(w)
    /\ UNCHANGED <<cron_stop_event, cron_thread, cron_topic, cron_keywords, ctl, hist>>
    /\ UNCHANGED otherVars

\* line 185: publish_blog_post returns (its result is dropped); line 192
Cron_PublishReturns(w, resp) ==
    /\ threads[w].pc = "publish_call"
    /\ publish_blog_post(resp) \in BOOLEAN
    /\ SetThread(w, [threads[w] EXCEPT !.pc = "L193", !.i = 0])
    /\ UNCHANGED <<cron_stop_event, cron_thread, cron_topic, cron_keywords, ctl, hist>>
    /\ UNCHANGED otherVars

\* lines 193-195: if cron_stop_event.is_set(): return, which ends the thread;
\* otherwise the slice of line 196 begins.
Cron_L193(w) ==
    /\ threads[w].pc = "L193"
    /\ IF cron_stop_event[threads[w].ns]
       THEN ThreadEnds(w)
       ELSE SetThread(w, [threads[w] EXCEPT !.pc = "L196"])
    /\ UNCHANGED <<cron_stop_event, cron_thread, cron_topic, cron_keywords, ctl, hist>>
    /\ UNCHANGED otherVars

\* Variant: the loop of line 192 runs one slice short.
Cron_L196Short(w) ==
    /\ threads[w].pc = "L196"
    /\ SetThread(w, IF threads[w].i + 1 < Slices - 1
                    THEN [threads[w] EXCEPT !.pc = "L193", !.i = @ + 1]
                    ELSE [threads[w] EXCEPT !.pc = "L175", !.i = 0])
    /\ UNCHANGED <<cron_stop_event, cron_thread, cron_topic, cron_keywords, ctl, hist>>
    /\ UNCHANGED otherVars

\* line 196: time.sleep(5) ends; line 192: the next slice, or back to line 175
\* after range(interval // 5) is exhausted.
Cron_L196(w) ==
    /\ threads[w].pc = "L196"
    /\ SetThread(w, IF threads[w].i + 1 < Slices
                    THEN [threads[w] EXCEPT !.pc = "L193", !.i = @ + 1]
                    ELSE [threads[w] EXCEPT !.pc = "L175", !.i = 0])
    /\ UNCHANGED <<cron_stop_event, cron_thread, cron_topic, cron_keywords, ctl, hist>>
    /\ UNCHANGED otherVars

(* ------------------------------------------------------------------ *)
(* limit_post_length                                                   *)
(* ------------------------------------------------------------------ *)
\* lines 226-234: limits.get(channel, 2000)
max_length(channel) ==
    CASE channel = "X" -> 280
      [] channel = "Facebook" -> 2000
      [] channel = "LinkedIn" -> 3000
      [] channel = "Instagram" -> 2200
      [] channel = "TikTok" -> 150
      [] channel = "Youtube" -> 1000
      [] OTHER -> 2000

\* str.rfind(ch): the highest 0-based index of ch, or -1.
rfind(str, ch) ==
    LET at == {k \in 1..Len(str) : str[k] = ch}
    IN IF at = {} THEN -1 ELSE (CHOOSE k \in at : \A j \in at : j <= k) - 1

Max3(a, b, c) ==
    LET ab == IF a >= b THEN a ELSE b
    IN IF ab >= c THEN ab ELSE c

\* content[:n]
Prefix(content, n) == SubSeq(content, 1, IF n <= Len(content) THEN n ELSE Len(content))

\* Variant: only the full stop is looked for in the window.
limit_post_length_stop_only(content, channel) ==
    IF Len(content) <= max_length(channel) THEN content
    ELSE LET truncated == Prefix(content, max_length(channel))
             last_delimiter == rfind(truncated, ".")
         IN IF last_delimiter # -1 THEN Prefix(truncated, last_delimiter + 1)
            ELSE truncated

\* Variant: a text without a sentence mark in the window is returned whole.
limit_post_length_uncut(content, channel) ==
    IF Len(content) <= max_length(channel) THEN content
    ELSE LET truncated == Prefix(content, max_length(channel))
             last_delimiter == Max3(rfind(truncated, "."), rfind(truncated, "!"),
                                    rfind(truncated, "?"))
         IN IF last_delimiter # -1 THEN Prefix(truncated, last_delimiter + 1)
            ELSE content

\* Variant: no length test, and the cut leaves out the sentence mark it found.
limit_post_length_before_mark(content, channel) ==
    LET truncated == Prefix(content, max_length(channel))
        last_delimiter == Max3(rfind(truncated, "."), rfind(truncated, "!"),
                               rfind(truncated, "?"))
    IN IF last_delimiter # -1 THEN Prefix(truncated, last_delimiter)
       ELSE truncated

\* Variant: the length test of line 235 is strict, so a text of exactly the
\* limit goes on to the cut.
limit_post_length_strict(content, channel) ==
    IF Len(content) < max_length(channel) THEN content
    ELSE LET truncated == Prefix(content, max_length(channel))
             last_delimiter == Max3(rfind(truncated, "."), rfind(truncated, "!"),
                                    rfind(truncated, "?"))
         IN IF last_delimiter # -1 THEN Prefix(truncated, last_delimiter + 1)
            ELSE truncated

\* lines 222-244
limit_post_length(content, channel) ==
    IF Len(content) <= max_length(channel) THEN content
    ELSE LET truncated == Prefix(content, max_length(channel))
             last_delimiter == Max3(rfind(truncated, "."), rfind(truncated, "!"),
                                    rfind(truncated, "?"))
         IN IF last_delimiter # -1 THEN Prefix(truncated, last_delimiter + 1)
            ELSE truncated

\* again: the result of a second call, on the result of the first.
IdleLim == [pc |-> "idle", content |-> << >>, channel |-> "", result |-> << >>,
            again |-> << >>]

\* limit_post_length(content, channel) returns
Limit_Returns ==
    /\ lim.pc = "call"
    /\ lim' = [lim EXCEPT !.pc = "returned",
                          !.result = limit_post_length(lim.content, lim.channel)]
    /\ UNCHANGED <<cronVars, soc, wk, session_state>>

\* limit_post_length(result, channel), a call on the result of the first, returns
Limit_Again ==
    /\ lim.pc = "returned"
    /\ lim' = [lim EXCEPT !.pc = "again",
                          !.again = limit_post_length(lim.result, lim.channel)]
    /\ UNCHANGED <<cronVars, soc, wk, session_state>>

(* ------------------------------------------------------------------ *)
(* generate_social_content_with_retry and its handler                  *)
(* ------------------------------------------------------------------ *)
\* generated_content = {} (line 251) is the empty function; calls and sleeps
\* count the backend calls and the time.sleep(delay) of the run; outcome
\* records, channel after channel of the list, how its retry loop was left:
\* "stored" (line 268), "skipped" (a falsy response) or "exhausted" (line 276);
\* main_content holds the title, topic and keywords that lines 385-389 format
\* into the text handed to the function.
IdleSoc == [pc |-> "idle", channels |-> << >>, ci |-> 0, attempt |-> 0,
            generated_content |-> << >>, calls |-> 0, sleeps |-> 0, outcome |-> << >>,
            main_content |-> None]

\* generated_content[channel] = value
DictSet(dict, key, value) == (key :> value) @@ dict

\* "Error generating content: "
ErrorPrefix == <<"E", "r", "r", "o", "r", " ", "g", "e", "n", "e", "r", "a", "t", "i", "n", "g", " ", "c", "o", "n", "t", "e", "n", "t", ":", " ">>

\* line 266: if response
ResponseKept(response) == response # << >>

\* lines 65-68 and 378-390, "Generate Social Media Posts" in session 1: the
\* script runs in a new namespace; a missing field or an empty selection is
\* refused; otherwise generate_social_content_with_retry is entered (line 251)
\* and the first backend call is made (line 264).
SocialGenerateButton(title, topic, keywords, channels) ==
    /\ soc.pc = "idle"
    /\ ctl[1].pc = "idle"
    /\ Script_L65_68(1)
    /\ SetCtl(1, [IdleCtl EXCEPT !.ns = NewNs(1)])
    /\ IF title = "" \/ topic = "" \/ keywords = << >>
       THEN /\ UNCHANGED soc
            /\ hist' = [hist EXCEPT !.refused = "fields"]
       ELSE IF channels = << >>
       THEN /\ UNCHANGED soc
            /\ hist' = [hist EXCEPT !.refused = "channels"]
       ELSE /\ soc' = [IdleSoc EXCEPT !.pc = "L264", !.channels = channels, !.ci = 1,
                                      !.calls = 1,
                                      !.main_content = Some(<<title, topic, keywords>>)]
            /\ hist' = [hist EXCEPT !.refused = "no"]
    /\ UNCHANGED <<lim, wk, session_state>>

\* line 253: the next channel, with a first backend call, or line 278: return
NextChannel(s) ==
    IF s.ci < Len(s.channels)
    THEN [s EXCEPT !.pc = "L264", !.ci = @ + 1, !.attempt = 0, !.calls = @ + 1]
    ELSE [s EXCEPT !.pc = "L278"]

\* lines 264-270: social_llm(prompt) returns; a response that is not empty is
\* stripped, limited and stored; the retry loop is left in either case.
Social_Responds(response) ==
    /\ soc.pc = "L264"
    /\ LET channel == soc.channels[soc.ci]
       IN soc' = NextChannel(
                   IF ResponseKept(response)
                   THEN [soc EXCEPT !.generated_content =
                            DictSet(@, channel, limit_post_length(Strip(response), channel)),
                                    !.outcome = Append(@, "stored")]
                   ELSE [soc EXCEPT !.outcome = Append(@, "skipped")])
    /\ UNCHANGED <<cronVars, lim, wk, session_state>>

\* Variant: the test of line 273 is `attempt < retries`, one attempt too many.
Social_RaisesOneMore(e) ==
    /\ soc.pc = "L264"
    /\ LET channel == soc.channels[soc.ci]
       IN IF soc.attempt < Retries
          THEN soc' = [soc EXCEPT !.pc = "L274", !.sleeps = @ + 1]
          ELSE soc' = NextChannel([soc EXCEPT !.generated_content =
                                     DictSet(@, channel, ErrorPrefix \o e),
                                                  !.outcome = Append(@, "exhausted")])
    /\ UNCHANGED <<cronVars, lim, wk, session_state>>

\* lines 272-276: social_llm(prompt) raises e; sleep before another attempt,
\* or store the error text after the last one.
Social_Raises(e) ==
    /\ soc.pc = "L264"
    /\ LET channel == soc.channels[soc.ci]
       IN IF soc.attempt < Retries - 1
          THEN soc' = [soc EXCEPT !.pc = "L274", !.sleeps = @ + 1]
          ELSE soc' = NextChannel([soc EXCEPT !.generated_content =
                                     DictSet(@, channel, ErrorPrefix \o e),
                                                  !.outcome = Append(@, "exhausted")])
    /\ UNCHANGED <<cronVars, lim, wk, session_state>>

\* line 274: time.sleep(delay) ends; line 254: the next attempt
Social_SleepEnds ==
    /\ soc.pc = "L274"
    /\ soc' = [soc EXCEPT !.pc = "L264", !.attempt = @ + 1, !.calls = @ + 1]
    /\ UNCHANGED <<cronVars, lim, wk, session_state>>

\* lines 390-392: the mapping has been returned; the handler stores it under
\* "social_content" and shows it.
Social_Returned ==
    /\ soc.pc = "L278"
    /\ session_state' = [session_state EXCEPT !.social_content = Some(soc.generated_content)]
    /\ soc' = IdleSoc
    /\ UNCHANGED <<cronVars, lim, wk>>

(* ------------------------------------------------------------------ *)
(* generate_weekly_content_plan and its handler                        *)
(* ------------------------------------------------------------------ *)
IdleWk == [pc |-> "idle", business_plan |-> << >>]

\* "Error generating weekly content plan: "
WeeklyErrorPrefix == <<"E", "r", "r", "o", "r", " ", "g", "e", "n", "e", "r", "a", "t", "i", "n", "g", " ", "w", "e", "e", "k", "l", "y", " ", "c", "o", "n", "t", "e", "n", "t", " ", "p", "l", "a", "n", ":", " ">>

\* lines 87-96: the content of the answer, or the error text on an exception.
generate_weekly_content_plan(resp) ==
    IF resp[1] = "error" THEN WeeklyErrorPrefix \o resp[2] ELSE resp[2]

\* lines 65-68 and 294-300, "Generate Weekly Content Plan" in session 1: the
\* script runs in a new namespace; a blank business plan is refused, otherwise
\* the plan is requested from the backend.
WeeklyPlanButton(business_plan) ==
    /\ wk.pc = "idle"
    /\ ctl[1].pc = "idle"
    /\ Script_L65_68(1)
    /\ SetCtl(1, [IdleCtl EXCEPT !.ns = NewNs(1)])
    /\ IF Strip(business_plan) = << >>
       THEN /\ UNCHANGED wk
            /\ hist' = [hist EXCEPT !.refused = "plan"]
       ELSE /\ wk' = [pc |-> "L300", business_plan |-> business_plan]
            /\ hist' = [hist EXCEPT !.refused = "no"]
    /\ UNCHANGED <<soc, lim, session_state>>

\* lines 300-302: what generate_weekly_content_plan returns is stored under
\* "weekly_plan"; the handler ends.
WeeklyPlanReturns(resp) ==
    /\ wk.pc = "L300"
    /\ session_state' = [session_state EXCEPT
                            !.weekly_plan = Some(generate_weekly_content_plan(resp))]
    /\ wk' = IdleWk
    /\ UNCHANGED <<cronVars, soc, lim>>

(* ------------------------------------------------------------------ *)
(* Texts, sized by the channel's limit                                 *)
(* ------------------------------------------------------------------ *)
\* n characters, all "a" but for "." at position dot, "!" at position bang and
\* "?" at position ask (a position outside 1..n leaves the mark out).
Text(n, dot, bang, ask) ==
    [k \in 1..n |-> IF k = dot THEN "." ELSE IF k = bang THEN "!"
                    ELSE IF k = ask THEN "?" ELSE "a"]

\* str(e) of a short exception.
Timeout == <<"t", "i", "m", "e", "o", "u", "t">>

\* What the backend may answer for a channel: nothing, blanks, a short post, a
\* post that itself reads "Error generating content: timeout", and texts of
\* the channel's limit and over it.
SocialTexts(channel) ==
    LET L == max_length(channel)
    IN { << >>,
         <<" ", "\n">>,
         <<" ", "H", "i", ".", "\r", "\n">>,
         ErrorPrefix \o Timeout,
         <<" ">> \o Text(L, 0, 0, 0) \o <<" ">>,
         Text(L + MaxOver, 0, 0, 0),
         Text(L + MaxOver, 0, L - 1, 0) }

\* What it may answer to the call in flight.
PossibleResponses ==
    IF soc.pc = "L264" THEN SocialTexts(soc.channels[soc.ci]) ELSE {}

\* str(e) of the exceptions the backend may raise.
ErrorTexts == { Timeout, Text(LongError, 0, 0, 0) }

Channels == {"X", "Facebook", "LinkedIn", "Instagram", "TikTok", "Youtube", "Mastodon"}

\* The channels of the selections that are run: the one with the lowest limit
\* and one more.
SelectedFrom == {"X", "TikTok"}

\* The selections: lists of at most MaxChannels channels.
ChannelLists == UNION {[1..n -> SelectedFrom] : n \in 0..MaxChannels}

\* What the operator may type as the business plan, and what the backend may
\* answer to the plan prompt: an error, or a plan.
BusinessPlanInputs == {<< >>, <<" ", "\r", "\n", "\f">>, <<"b", "p">>}
WeeklyResponses == {<<"error", Timeout>>,
                    <<"ok", <<"p", "l", "a", "n", " ", "A">>>>,
                    <<"ok", <<"p", "l", "a", "n", " ", "B">>>>}

\* The arguments of the calls of limit_post_length for a channel: texts of a
\* length around its limit with sentence marks around the limit.
LimitInputsFor(ch) ==
    LET L == max_length(ch)
    IN { [pc |-> "call", channel |-> ch, content |-> Text(len, dot, bang, ask),
          result |-> << >>, again |-> << >>] :
           len \in {0, 1, L - 1, L, L + 1, L + MaxOver},
           dot \in {0, 1, L - 1, L, L + 1},
           bang \in {0, L - 2, L + 1},
           ask \in {0, 2} }

LimitInputs == UNION {LimitInputsFor(ch) : ch \in Channels}

(* ------------------------------------------------------------------ *)
(* The program                                                         *)
(* ------------------------------------------------------------------ *)
\* The page has been loaded in each session: the script has run once, in the
\* namespace of the session's number, with no button pressed.
Init ==
    /\ cron_stop_event = [n \in Nids |-> FALSE]
    /\ cron_thread = [n \in Nids |-> None]
    /\ cron_topic = [n \in Nids |-> None]
    /\ cron_keywords = [n \in Nids |-> None]
    /\ threads = [w \in Tids |-> NoThread]
    /\ ctl = [c \in Ctls |-> [IdleCtl EXCEPT !.ns = c]]
    /\ hist = [last |-> "none", after_idle_stop |-> "no", stop_in_call |-> FALSE,
               stop_in_sleep |-> FALSE, refused |-> "no"]
    /\ soc = IdleSoc
    /\ lim = IdleLim
    /\ wk = IdleWk
    /\ session_state = [weekly_plan |-> None, social_content |-> None]

\* One browser session with the cron job and the one-shot generation, for as
\* long as no sleep slice of a worker ends.
Next ==
    \/ \E c \in Ctls, topic \in TopicInputs, keywords \in KeywordInputs :
          StartCronButton(c, topic, keywords)
    \/ \E c \in Ctls : Start_L203(c)
    \/ \E c \in Ctls : Start_L204(c)
    \/ \E c \in Ctls : Start_L205(c)
    \/ \E c \in Ctls : Start_L207(c)
    \/ \E c \in Ctls : Start_L208(c)
    \/ \E c \in Ctls : Start_L209(c)
    \/ \E c \in Ctls : Start_L210(c)
    \/ \E c \in Ctls : StopCronButton(c)
    \/ \E c \in Ctls, title \in TitleInputs, topic \in TopicInputs, keywords \in KeywordInputs :
          ManualGenerateButton(c, title, topic, keywords)
    \/ \E c \in Ctls, resp \in BodyResponses : ManualContentReturns(c, resp)
    \/ \E c \in Ctls, resp \in PublishResponses : ManualPublishReturns(c, resp)
    \/ \E c \in Ctls : ManualPublishShown(c)
    \/ \E w \in Tids : Cron_L175(w)
    \/ \E w \in Tids : Cron_ReadTopic(w)
    \/ \E w \in Tids : Cron_CallTitle(w)
    \/ \E w \in Tids, resp \in TitleResponses : Cron_TitleReturns(w, resp)
    \/ \E w \in Tids : Cron_CallContent(w)
    \/ \E w \in Tids, resp \in BodyResponses : Cron_ContentReturns(w, resp)
    \/ \E w \in Tids : Cron_L183(w)
    \/ \E w \in Tids, resp \in PublishResponses : Cron_PublishReturns(w, resp)
    \/ \E w \in Tids : Cron_L193(w)

Spec == Init /\ [][Next]_vars

\* The worker of the first click of "Start Cron Job" through its intervals.
\* The state when that click, made with a topic and keywords on the page just
\* loaded, has returned: the run was in namespace 1, its thread is at the loop
\* head of line 175.
InitInterval ==
    /\ cron_stop_event = [n \in Nids |-> FALSE]
    /\ cron_thread = [n \in Nids |-> IF n = 1 THEN Some(1) ELSE None]
    /\ cron_topic = [n \in Nids |-> IF n = 1 THEN Some("t1") ELSE None]
    /\ cron_keywords = [n \in Nids |-> IF n = 1 THEN Some(<<"k1">>) ELSE None]
    /\ threads = [w \in Tids |-> IF w = 1 THEN [NewThread EXCEPT !.pc = "L175", !.ns = 1]
                                 ELSE NoThread]
    /\ ctl = [c \in Ctls |-> [IdleCtl EXCEPT !.ns = c]]
    /\ hist = [last |-> "start", after_idle_stop |-> "no", stop_in_call |-> FALSE,
               stop_in_sleep |-> FALSE, refused |-> "no"]
    /\ soc = IdleSoc
    /\ lim = IdleLim
    /\ wk = IdleWk
    /\ session_state = [weekly_plan |-> None, social_content |-> None]

\* From there the worker runs beside the clicks of "Stop Cron Job" and of the
\* one-shot generation; "Start Cron Job" is not clicked again.
NextInterval ==
    \/ \E c \in Ctls : StopCronButton(c)
    \/ \E c \in Ctls, title \in TitleInputs, topic \in TopicInputs, keywords \in KeywordInputs :
          ManualGenerateButton(c, title, topic, keywords)
    \/ \E c \in Ctls, resp \in BodyResponses : ManualContentReturns(c, resp)
    \/ \E c \in Ctls, resp \in PublishResponses : ManualPublishReturns(c, resp)
    \/ \E c \in Ctls : ManualPublishShown(c)
    \/ \E w \in Tids : Cron_L175(w)
    \/ \E w \in Tids : Cron_ReadTopic(w)
    \/ \E w \in Tids : Cron_CallTitle(w)
    \/ \E w \in Tids, resp \in TitleResponses : Cron_TitleReturns(w, resp)
    \/ \E w \in Tids : Cron_CallContent(w)
    \/ \E w \in Tids, resp \in BodyResponses : Cron_ContentReturns(w, resp)
    \/ \E w \in Tids : Cron_L183(w)
    \/ \E w \in Tids, resp \in PublishResponses : Cron_PublishReturns(w, resp)
    \/ \E w \in Tids : Cron_L193(w)
    \/ \E w \in Tids : Cron_L196(w)

SpecInterval == InitInterval /\ [][NextInterval]_vars

\* The social post generator alone.
NextSocial ==
    \/ \E title \in TitleInputs, topic \in TopicInputs, keywords \in KeywordInputs,
          channels \in ChannelLists :
          SocialGenerateButton(title, topic, keywords, channels)
    \/ \E response \in PossibleResponses : Social_Responds(response)
    \/ \E e \in ErrorTexts : Social_Raises(e)
    \/ Social_SleepEnds
    \/ Social_Returned

SpecSocial == Init /\ [][NextSocial]_vars

\* The jobs that "Start Cron Job" is clicked with.
JobSpecs == {<<"t1", <<"k1">>>>, <<"t2", <<"k2">>>>}

\* One browser session that clicks "Start Cron Job" with one of two jobs and
\* "Stop Cron Job", again and again, for as long as no sleep slice of a
\* worker ends.
NextJobs ==
    \/ \E c \in Ctls, job \in JobSpecs : StartCronButton(c, job[1], job[2])
    \/ \E c \in Ctls : Start_L203(c)
    \/ \E c \in Ctls : Start_L204(c)
    \/ \E c \in Ctls : Start_L205(c)
    \/ \E c \in Ctls : Start_L207(c)
    \/ \E c \in Ctls : Start_L208(c)
    \/ \E c \in Ctls : Start_L209(c)
    \/ \E c \in Ctls : Start_L210(c)
    \/ \E c \in Ctls : StopCronButton(c)
    \/ \E w \in Tids : Cron_L175(w)
    \/ \E w \in Tids : Cron_ReadTopic(w)
    \/ \E w \in Tids : Cron_CallTitle(w)
    \/ \E w \in Tids, resp \in TitleResponses : Cron_TitleReturns(w, resp)
    \/ \E w \in Tids : Cron_CallContent(w)
    \/ \E w \in Tids, resp \in BodyResponses : Cron_ContentReturns(w, resp)
    \/ \E w \in Tids : Cron_L183(w)
    \/ \E w \in Tids, resp \in PublishResponses : Cron_PublishReturns(w, resp)
    \/ \E w \in Tids : Cron_L193(w)

SpecJobs == Init /\ [][NextJobs]_vars

\* Two browser sessions whose runs are in start_cron_job at once, for as long
\* as no sleep slice of the workers ends and nobody presses "Stop Cron Job".
InitRace ==
    /\ cron_stop_event = [n \in Nids |-> FALSE]
    /\ cron_thread = [n \in Nids |-> None]
    /\ cron_topic = [n \in Nids |-> None]
    /\ cron_keywords = [n \in Nids |-> None]
    /\ threads = [w \in Tids |-> NoThread]
    /\ ctl = [c \in RaceCtls |-> [IdleCtl EXCEPT !.ns = c]]
    /\ hist = [last |-> "none", after_idle_stop |-> "no", stop_in_call |-> FALSE,
               stop_in_sleep |-> FALSE, refused |-> "no"]
    /\ soc = IdleSoc
    /\ lim = IdleLim
    /\ wk = IdleWk
    /\ session_state = [weekly_plan |-> None, social_content |-> None]

NextRace ==
    \/ \E c \in RaceCtls, topic \in TopicInputs, keywords \in KeywordInputs :
          StartCronButton(c, topic, keywords)
    \/ \E c \in RaceCtls : Start_L203(c)
    \/ \E c \in RaceCtls : Start_L204(c)
    \/ \E c \in RaceCtls : Start_L205(c)
    \/ \E c \in RaceCtls : Start_L207(c)
    \/ \E c \in RaceCtls : Start_L208(c)
    \/ \E c \in RaceCtls : Start_L209(c)
    \/ \E c \in RaceCtls : Start_L210(c)
    \/ \E w \in Tids : Cron_L175(w)
    \/ \E w \in Tids : Cron_ReadTopic(w)
    \/ \E w \in Tids : Cron_CallTitle(w)
    \/ \E w \in Tids, resp \in TitleResponses : Cron_TitleReturns(w, resp)
    \/ \E w \in Tids : Cron_CallContent(w)
    \/ \E w \in Tids, resp \in BodyResponses : Cron_ContentReturns(w, resp)
    \/ \E w \in Tids : Cron_L183(w)
    \/ \E w \in Tids, resp \in PublishResponses : Cron_PublishReturns(w, resp)
    \/ \E w \in Tids : Cron_L193(w)

SpecRace == InitRace /\ [][NextRace]_vars

\* The handlers of one browser session without the cron job: a click begins
\* a run of the script only when no other run is in progress.
UiIdle == wk.pc = "idle" /\ soc.pc = "idle" /\ \A c \in Ctls : ctl[c].pc = "idle"

NextUI ==
    \/ UiIdle /\ \E business_plan \in BusinessPlanInputs : WeeklyPlanButton(business_plan)
    \/ \E resp \in WeeklyResponses : WeeklyPlanReturns(resp)
    \/ UiIdle /\ \E c \in Ctls, title \in TitleInputs, topic \in TopicInputs,
                    keywords \in KeywordInputs :
                    ManualGenerateButton(c, title, topic, keywords)
    \/ \E c \in Ctls, resp \in BodyResponses : ManualContentReturns(c, resp)
    \/ \E c \in Ctls, resp \in PublishResponses : ManualPublishReturns(c, resp)
    \/ \E c \in Ctls : ManualPublishShown(c)
    \/ UiIdle /\ \E title \in TitleInputs, topic \in TopicInputs, keywords \in KeywordInputs,
                    channels \in ChannelLists :
                    SocialGenerateButton(title, topic, keywords, channels)
    \/ \E response \in PossibleResponses : Social_Responds(response)
    \/ \E e \in ErrorTexts : Social_Raises(e)
    \/ Social_SleepEnds
    \/ Social_Returned

SpecUI == Init /\ [][NextUI]_vars

\* The buttons that look at the operator's input, in one browser session and
\* for as long as nobody presses "Stop Cron Job" and no sleep slice of a
\* worker ends: a click begins a run only when no other is in progress, the
\* workers run beside the handlers.  The social posts are asked for one
\* channel at most, the backend answers that prompt with a short text and the
\* plan prompt with a timeout.
NextInputs ==
    \/ UiIdle /\ \E c \in Ctls, topic \in TopicInputs, keywords \in KeywordInputs :
                    StartCronButton(c, topic, keywords)
    \/ \E c \in Ctls : Start_L203(c)
    \/ \E c \in Ctls : Start_L204(c)
    \/ \E c \in Ctls : Start_L205(c)
    \/ \E c \in Ctls : Start_L207(c)
    \/ \E c \in Ctls : Start_L208(c)
    \/ \E c \in Ctls : Start_L209(c)
    \/ \E c \in Ctls : Start_L210(c)
    \/ UiIdle /\ \E c \in Ctls, title \in TitleInputs, topic \in TopicInputs,
                    keywords \in KeywordInputs :
                    ManualGenerateButton(c, title, topic, keywords)
    \/ \E c \in Ctls, resp \in BodyResponses : ManualContentReturns(c, resp)
    \/ \E c \in Ctls, resp \in PublishResponses : ManualPublishReturns(c, resp)
    \/ \E c \in Ctls : ManualPublishShown(c)
    \/ UiIdle /\ \E business_plan \in BusinessPlanInputs : WeeklyPlanButton(business_plan)
    \/ \E resp \in WeeklyResponses : resp[2] = Timeout /\ WeeklyPlanReturns(resp)
    \/ UiIdle /\ \E title \in TitleInputs, topic \in TopicInputs, keywords \in KeywordInputs,
                    channels \in ChannelLists :
                    Len(channels) <= 1 /\ SocialGenerateButton(title, topic, keywords, channels)
    \/ \E response \in PossibleResponses : Len(response) = 6 /\ Social_Responds(response)
    \/ Social_Returned
    \/ \E w \in Tids : Cron_L175(w)
    \/ \E w \in Tids : Cron_ReadTopic(w)
    \/ \E w \in Tids : Cron_CallTitle(w)
    \/ \E w \in Tids, resp \in TitleResponses : Cron_TitleReturns(w, resp)
    \/ \E w \in Tids : Cron_CallContent(w)
    \/ \E w \in Tids, resp \in BodyResponses : Cron_ContentReturns(w, resp)
    \/ \E w \in Tids : Cron_L183(w)
    \/ \E w \in Tids, resp \in PublishResponses : Cron_PublishReturns(w, resp)
    \/ \E w \in Tids : Cron_L193(w)

SpecInputs == Init /\ [][NextInputs]_vars

\* limit_post_length alone, called on each of LimitInputs and then on its result.
InitLimit ==
    /\ cron_stop_event = [n \in Nids |-> FALSE]
    /\ cron_thread = [n \in Nids |-> None]
    /\ cron_topic = [n \in Nids |-> None]
    /\ cron_keywords = [n \in Nids |-> None]
    /\ threads = [w \in Tids |-> NoThread]
    /\ ctl = [c \in Ctls |-> [IdleCtl EXCEPT !.ns = c]]
    /\ hist = [last |-> "none", after_idle_stop |-> "no", stop_in_call |-> FALSE,
               stop_in_sleep |-> FALSE, refused |-> "no"]
    /\ soc = IdleSoc
    /\ lim \in LimitInputs
    /\ wk = IdleWk
    /\ session_state = [weekly_plan |-> None, social_content |-> None]

NextLimit == Limit_Returns \/ Limit_Again

SpecLimit == InitLimit /\ [][NextLimit]_vars

\* One step of worker w up to its first sleep slice, whichever it is: the
\* thread scheduler runs a live thread again and again, and every call it
\* waits for returns.
IterationStep(w) ==
    \/ Cron_L175(w) \/ Cron_ReadTopic(w) \/ Cron_CallTitle(w) \/ Cron_CallContent(w)
    \/ Cron_L183(w) \/ Cron_L193(w)
    \/ \E resp \in TitleResponses : Cron_TitleReturns(w, resp)
    \/ \E resp \in BodyResponses : Cron_ContentReturns(w, resp)
    \/ \E resp \in PublishResponses : Cron_PublishReturns(w, resp)

FairSpec == Spec /\ \A w \in Tids : WF_vars(IterationStep(w))

\* One step of worker w, whichever it is: every sleep ends as well.
CronStep(w) == IterationStep(w) \/ Cron_L196(w)

FairInterval == SpecInterval /\ \A w \in Tids : WF_vars(CronStep(w))

(* ------------------------------------------------------------------ *)
(* Vocabulary of the properties                                        *)
(* ------------------------------------------------------------------ *)
\* No start_cron_job is executing.
NoStartRunning == Starting = {}

\* The last start/stop call that was issued is a start, and it has returned.
StartReturnedNoStopSince == NoStartRunning /\ hist.last = "start"

(* ------------------------------------------------------------------ *)
(* C1                                                                  *)
(* ------------------------------------------------------------------ *)
\* C1: with one session issuing start() and stop() one at a time, at most one
\* worker is live in every reachable state, and a start() that has decided to
\* spawn (lines 208-209) does so only when no worker is live.
C1_AtMostOneLiveWorker ==
    /\ Cardinality(LiveWorkers) <= 1
    /\ \A c \in Ctls : ctl[c].pc \in {"L208", "L209"} => LiveWorkers = {}

(* ------------------------------------------------------------------ *)
(* C2                                                                  *)
(* ------------------------------------------------------------------ *)
\* C2: whenever start() has returned and no stop() was issued afterwards, a
\* worker is live; the start() that returns leaves the thread of its run
\* alive with the event of that run clear, whatever workers of earlier
\* start() calls are alive beside it; and a worker at the loop head of line
\* 175 goes on to the title call of an iteration and through the iteration to
\* its sleep.
C2_StartLeavesLiveWorker ==
    /\ [](StartReturnedNoStopSince => LiveWorkers # {})
    /\ [][\A c \in Ctls :
            Start_L210(c) =>
               /\ cron_thread'[ctl[c].ns] # None
               /\ is_alive(threads'[cron_thread'[ctl[c].ns][1]])
               /\ ~cron_stop_event'[ctl[c].ns]]_vars
    /\ \A w \in Tids : threads[w].pc = "L175" ~> threads[w].pc = "title_call"
    /\ \A w \in Tids : threads[w].pc = "title_call" ~> threads[w].pc = "L196"

\* A start() has returned beside the worker of an earlier start(), no stop()
\* was issued since, and both workers have finished an iteration and are in
\* the first slice of their sleep.
C2_Witness ==
    /\ StartReturnedNoStopSince
    /\ Cardinality(LiveWorkers) = 2
    /\ \A w \in LiveWorkers : threads[w].pc = "L196" /\ threads[w].iterated

(* ------------------------------------------------------------------ *)
(* C3                                                                  *)
(* ------------------------------------------------------------------ *)
\* C3: after a stop() issued while a worker was in its sleep phase, and as
\* long as no start() is issued, a worker that comes to the slice check of
\* line 193 terminates there, and no worker begins a generation or publish
\* call.
C3_StopInSleepTerminates ==
    [][\A w \in Tids :
         (hist.stop_in_sleep /\ hist'.stop_in_sleep) =>
            /\ (threads[w].pc = "L193" /\ threads'[w] # threads[w]) =>
                  ~is_alive(threads'[w])
            /\ ~(threads'[w].pc \in CallPcs /\ threads'[w].pc # threads[w].pc)]_vars

(* ------------------------------------------------------------------ *)
(* C4                                                                  *)
(* ------------------------------------------------------------------ *)
\* C4: stop() with no live worker changes no thread, spawns none and returns
\* (the session is idle); once a later start() has returned, and until the
\* next start() or stop(), exactly one worker is live.
C4_StopWhenIdle ==
    /\ [][\A c \in Ctls :
            (StopCronButton(c) /\ LiveWorkers = {}) =>
               (threads' = threads /\ cron_thread' = cron_thread /\ ctl'[c].pc = "idle")]_vars
    /\ [](hist.after_idle_stop = "stopped" /\ NoStartRunning => LiveWorkers = {})
    /\ [](hist.after_idle_stop = "started" => Cardinality(LiveWorkers) = 1)

\* A start() after a stop() on the idle controller has spawned a worker, which
\* is in the title call of its first iteration.
C4_Witness ==
    /\ hist.after_idle_stop = "started"
    /\ \E w \in Tids : threads[w].pc = "title_call"

(* ------------------------------------------------------------------ *)
(* C6                                                                  *)
(* ------------------------------------------------------------------ *)
\* C6: a publish call in flight, from the worker or from the one-shot handler,
\* carries a non-empty body, and the worker's body was returned by a
\* successful body call of the same iteration.
C6_PublishOnlyGeneratedBody ==
    /\ \A w \in Tids : threads[w].pc = "publish_call" =>
          (Truthy(threads[w].blog_content) /\ threads[w].fresh)
    /\ \A c \in Ctls : ctl[c].pc = "L359" => Truthy(ctl[c].content)

\* The worker has skipped the publish after a failed or empty body, and the
\* one-shot handler is publishing a generated body.
C6_Witness ==
    /\ \E w \in Tids : threads[w].pc = "L193" /\ ~Truthy(threads[w].blog_content)
    /\ \E c \in Ctls : ctl[c].pc = "L359"

(* ------------------------------------------------------------------ *)
(* C7                                                                  *)
(* ------------------------------------------------------------------ *)
\* C7: a worker ends only where it has seen the event of its namespace set,
\* at line 175 or line 193; every iteration, whatever its calls answered,
\* reaches the sleep phase, and the sleep phase leads to the next iteration
\* unless stop() is called.
C7_FailureNeverStopsWorker ==
    /\ [][\A w \in Tids :
            (is_alive(threads[w]) /\ ~is_alive(threads'[w])) =>
               (cron_stop_event[threads[w].ns] /\ threads[w].pc \in {"L175", "L193"})]_vars
    /\ \A w \in Tids : threads[w].pc \in IterationPcs ~> threads[w].pc \in SleepPcs
    /\ \A w \in Tids :
          threads[w].pc \in SleepPcs ~> (threads[w].pc = "L179" \/ hist.last = "stop")

\* An iteration whose title call and body call both failed is over and the
\* worker has begun the next one.
C7_Witness ==
    \E w \in Tids :
        /\ threads[w].pc = "L179"
        /\ threads[w].blog_title = FallbackTitle
        /\ threads[w].blog_content = None

(* ------------------------------------------------------------------ *)
(* C8                                                                  *)
(* ------------------------------------------------------------------ *)
\* C8: in an iteration the title call is entered from line 179 only, the body
\* call only after the title call has returned, the publish call only after
\* the body call has returned; a new iteration begins only from line 175,
\* reached after the last slice or at the start of the thread; and at most
\* one worker is inside an iteration.
C8_IterationOrder ==
    /\ [][\A w \in Tids :
            LET a == threads[w].pc
                b == threads'[w].pc
            IN a # b =>
                 /\ b = "L175" => a \in {"created", "L196"}
                 /\ b = "L179" => a = "L175"
                 /\ b = "L179k" => a = "L179"
                 /\ b = "title_call" => a = "L179k"
                 /\ b = "L181" => a = "title_call"
                 /\ b = "L181k" => a = "L181"
                 /\ b = "content_call" => a = "L181k"
                 /\ b = "L183" => a = "content_call"
                 /\ b = "publish_call" => a = "L183"
                 /\ b = "L193" => a \in {"L183", "publish_call", "L196"}]_vars
    /\ [](Cardinality({w \in Tids : threads[w].pc \in IterationPcs}) <= 1)

(* ------------------------------------------------------------------ *)
(* C9                                                                  *)
(* ------------------------------------------------------------------ *)
\* C9: the start() that starts a thread (line 209) puts it at the loop head of
\* line 175; the first step of a new worker from there is into the iteration
\* (line 179); and a worker is in its sleep phase only after it has begun a
\* title call.
C9_IterationBeforeSleep ==
    /\ [][\A c \in Ctls :
            (Start_L209(c) /\ ctl'[c].pc = "L210") =>
               \E w \in Tids : threads[w].pc = "created" /\ threads'[w].pc = "L175"
                                  /\ threads'[w].ns = ctl[c].ns]_vars
    /\ [][\A w \in Tids :
            (threads[w].pc = "L175" /\ ~threads[w].iterated /\ threads'[w] # threads[w]) =>
               threads'[w].pc = "L179"]_vars
    /\ [](\A w \in Tids : threads[w].pc \in SleepPcs => threads[w].iterated)

\* A start() has returned and its worker is in the title call of its first
\* iteration (it has no title yet), while the worker of an earlier start()
\* is in its sleep phase.
C9_Witness ==
    /\ StartReturnedNoStopSince
    /\ \E w \in Tids, v \in Tids :
          /\ threads[w].pc = "title_call" /\ threads[w].blog_title = << >>
          /\ threads[v].pc \in SleepPcs

(* ------------------------------------------------------------------ *)
(* C5                                                                  *)
(* ------------------------------------------------------------------ *)
\* The channels requested in the run of generate_social_content_with_retry.
Requested == {soc.channels[k] : k \in 1..Len(soc.channels)}

\* C5: the mapping that generate_social_content_with_retry returns has the
\* requested channels as its keys, no fewer and no more, whatever the backend
\* answered.
C5_KeysAreRequestedChannels ==
    soc.pc = "L278" => DOMAIN soc.generated_content = Requested

(* ------------------------------------------------------------------ *)
(* C10                                                                 *)
(* ------------------------------------------------------------------ *)
\* The limits as the specification lists them.
StatedLimit(channel) ==
    IF channel = "X" THEN 280
    ELSE IF channel = "Facebook" THEN 2000
    ELSE IF channel = "LinkedIn" THEN 3000
    ELSE IF channel = "Instagram" THEN 2200
    ELSE IF channel = "TikTok" THEN 150
    ELSE IF channel = "Youtube" THEN 1000
    ELSE 2000

\* C10: the result of limit_post_length(C, X) is no longer than the limit of
\* channel X, for a known channel and for any other.
C10_ResultWithinLimit ==
    lim.pc = "returned" => Len(lim.result) <= StatedLimit(lim.channel)

\* A text longer than its channel's limit, without a sentence mark, has been
\* cut to exactly the limit; the channel is not one of the table.
C10_Witness ==
    /\ lim.pc = "returned"
    /\ lim.channel = "Mastodon"
    /\ Len(lim.content) > StatedLimit(lim.channel)
    /\ Len(lim.result) = StatedLimit(lim.channel)

(* ------------------------------------------------------------------ *)
(* C11                                                                 *)
(* ------------------------------------------------------------------ *)
\* C11: a text no longer than the limit of its channel is returned by
\* limit_post_length as it is, sentence marks inside it or not.
C11_IdentityWithinLimit ==
    (lim.pc = "returned" /\ Len(lim.content) <= StatedLimit(lim.channel))
        => lim.result = lim.content

\* A text of exactly the limit of X, with a sentence mark at its start and
\* none at its end, has been returned whole.
C11_Witness ==
    /\ lim.pc = "returned"
    /\ lim.channel = "X"
    /\ Len(lim.content) = StatedLimit("X")
    /\ lim.content[1] = "."
    /\ lim.content[Len(lim.content)] = "a"
    /\ lim.result = lim.content

(* ------------------------------------------------------------------ *)
(* C12                                                                 *)
(* ------------------------------------------------------------------ *)
\* C12: limit_post_length applied to its own result, for the same channel,
\* returns that result: limit(limit(C, X), X) = limit(C, X).
C12_Idempotent ==
    lim.pc = "again" => lim.again = lim.result

\* A text longer than the limit was cut at its last sentence mark in the
\* window; the result holds an earlier mark, and the second call returned it.
C12_Witness ==
    /\ lim.pc = "again"
    /\ Len(lim.content) > StatedLimit(lim.channel)
    /\ Len(lim.result) < StatedLimit(lim.channel)
    /\ lim.result[1] = "."
    /\ lim.result[Len(lim.result)] = "!"
    /\ lim.again = lim.result

(* ------------------------------------------------------------------ *)
(* C13                                                                 *)
(* ------------------------------------------------------------------ *)
\* The positions of the list whose retry loop was left in the way `how` and
\* whose channel was not processed again later in the list.
LeftAs(how) ==
    {k \in 1..Len(soc.outcome) :
        /\ soc.outcome[k] = how
        /\ \A j \in (k + 1)..Len(soc.outcome) : soc.channels[j] # soc.channels[k]}

\* "Error generating content:"
ErrorTag == SubSeq(ErrorPrefix, 1, Len(ErrorPrefix) - 1)

\* C13: a channel whose Retries attempts all failed has an entry that is not
\* empty, begins with "Error generating content:" and differs from every
\* entry that a successful attempt stored in the mapping; and the function
\* returns (every channel of the list was processed).
C13_ErrorEntryDistinct ==
    /\ \A k \in LeftAs("exhausted") :
          LET v == soc.generated_content[soc.channels[k]]
          IN /\ v # << >>
             /\ Len(v) >= Len(ErrorTag) /\ SubSeq(v, 1, Len(ErrorTag)) = ErrorTag
             /\ \A j \in LeftAs("stored") : soc.generated_content[soc.channels[j]] # v
    /\ soc.pc = "L278" => Len(soc.outcome) = Len(soc.channels)

(* ------------------------------------------------------------------ *)
(* C14                                                                 *)
(* ------------------------------------------------------------------ *)
\* The positions of the list that come after a channel left as "exhausted".
AfterExhausted ==
    {k \in 1..Len(soc.channels) :
        \E j \in 1..(k - 1) : j <= Len(soc.outcome) /\ soc.outcome[j] = "exhausted"}

\* C14: the step that exhausts a channel's retries goes on to the next channel
\* of the list with a first attempt (or returns after the last one) and leaves
\* the entries of the other channels as they are; the channels after it are
\* given up to Retries attempts of their own, a failed attempt short of the
\* last being followed by another; and in the mapping returned each of them
\* has its entry.
C14_ChannelsIndependent ==
    /\ [][(soc.pc = "L264" /\ soc'.outcome = Append(soc.outcome, "exhausted")) =>
            /\ soc.attempt = Retries - 1
            /\ IF soc.ci < Len(soc.channels)
               THEN soc'.pc = "L264" /\ soc'.ci = soc.ci + 1 /\ soc'.attempt = 0
               ELSE soc'.pc = "L278"
            /\ \A ch \in DOMAIN soc.generated_content \ {soc.channels[soc.ci]} :
                  /\ ch \in DOMAIN soc'.generated_content
                  /\ soc'.generated_content[ch] = soc.generated_content[ch]]_vars
    /\ [][(soc.pc = "L264" /\ soc.ci \in AfterExhausted /\ soc'.pc = "L274") =>
            soc.attempt < Retries - 1]_vars
    /\ [][(soc.pc = "L274" /\ soc.ci \in AfterExhausted /\ soc' # soc) =>
            (soc'.pc = "L264" /\ soc'.ci = soc.ci /\ soc'.attempt = soc.attempt + 1)]_vars
    /\ [](soc.pc = "L278" =>
            \A k \in AfterExhausted :
               /\ k <= Len(soc.outcome)
               /\ soc.channels[k] \in DOMAIN soc.generated_content)

(* ------------------------------------------------------------------ *)
(* C15                                                                 *)
(* ------------------------------------------------------------------ *)
\* C15: publish_blog_post returns to its caller whatever the CMS answered (it
\* never raises), and what it returns is True exactly when the answer has
\* status 201: True for a 201, False for a 200 or a 500 and for a transport
\* failure.
C15_PublishTrueIff201 ==
    [][\A c \in Ctls, resp \in PublishResponses :
         ManualPublishReturns(c, resp) =>
            /\ ctl'[c].pc = "L360"
            /\ ctl'[c].published = Some(resp[1] = "status" /\ resp[2] = 201)]_vars

(* ------------------------------------------------------------------ *)
(* C16                                                                 *)
(* ------------------------------------------------------------------ *)
\* The answers to the title prompt on which the try of lines 131-141 raises:
\* the backend call fails, or the message has no content to strip.
TitleFailures == {resp \in TitleResponses : resp[1] = "error" \/ resp[2] = None}

\* C16: when the title call fails, generate_blog_title returns "Untitled Blog
\* Post" and the worker goes on at line 181; from there, holding the fallback
\* title, it reads the job, calls the body generation, and at line 183
\* publishes if the body is present (and sleeps if not), the title unchanged.
C16_TitleFailsOpen ==
    /\ [][\A w \in Tids, resp \in TitleFailures :
            Cron_TitleReturns(w, resp) =>
               (threads'[w].blog_title = FallbackTitle /\ threads'[w].pc = "L181")]_vars
    /\ [][\A w \in Tids :
            (threads[w].blog_title = FallbackTitle /\ threads'[w] # threads[w]) =>
               /\ threads[w].pc = "L181" =>
                     (threads'[w].pc = "L181k" /\ threads'[w].blog_title = FallbackTitle)
               /\ threads[w].pc = "L181k" =>
                     (threads'[w].pc = "content_call" /\ threads'[w].blog_title = FallbackTitle)
               /\ threads[w].pc = "content_call" =>
                     (threads'[w].pc = "L183" /\ threads'[w].blog_title = FallbackTitle)
               /\ threads[w].pc = "L183" =>
                     /\ threads'[w].blog_title = FallbackTitle
                     /\ threads'[w].pc = IF Truthy(threads[w].blog_content)
                                         THEN "publish_call" ELSE "L193"]_vars

\* After a failed title call the worker is publishing a generated body under
\* the fallback title.
C16_Witness ==
    \E w \in Tids :
        /\ threads[w].pc = "publish_call"
        /\ threads[w].blog_title = FallbackTitle
        /\ Truthy(threads[w].blog_content)

(* ------------------------------------------------------------------ *)
(* C17                                                                 *)
(* ------------------------------------------------------------------ *)
\* A step in which an interactive action fails: a click refused for a missing
\* input, the plan request answered by an error, a body that is not
\* generated, a publish that returns False, and a social generation that
\* returns with a channel left as "exhausted".
FailedActionStep ==
    \/ \E business_plan \in BusinessPlanInputs :
          WeeklyPlanButton(business_plan) /\ Strip(business_plan) = << >>
    \/ \E c \in Ctls, title \in TitleInputs, topic \in TopicInputs, keywords \in KeywordInputs :
          /\ ManualGenerateButton(c, title, topic, keywords)
          /\ title = "" \/ topic = "" \/ keywords = << >>
    \/ \E title \in TitleInputs, topic \in TopicInputs, keywords \in KeywordInputs,
          channels \in ChannelLists :
          /\ SocialGenerateButton(title, topic, keywords, channels)
          /\ title = "" \/ topic = "" \/ keywords = << >> \/ channels = << >>
    \/ \E resp \in WeeklyResponses : WeeklyPlanReturns(resp) /\ resp[1] = "error"
    \/ \E c \in Ctls, resp \in BodyResponses :
          ManualContentReturns(c, resp) /\ ~Truthy(generate_blog_content(resp))
    \/ \E c \in Ctls, resp \in PublishResponses :
          ManualPublishReturns(c, resp) /\ ~publish_blog_post(resp)
    \/ \E c \in Ctls : ManualPublishShown(c) /\ ctl[c].published = Some(FALSE)
    \/ Social_Returned /\ \E k \in 1..Len(soc.outcome) : soc.outcome[k] = "exhausted"

\* C17: a failed interactive action leaves the weekly plan and the social
\* posts that were stored before it as they were.
C17_FailureKeepsStoredState ==
    [][FailedActionStep =>
         /\ session_state.weekly_plan # None =>
               session_state'.weekly_plan = session_state.weekly_plan
         /\ session_state.social_content # None =>
               session_state'.social_content = session_state.social_content]_vars

(* ------------------------------------------------------------------ *)
(* C18                                                                 *)
(* ------------------------------------------------------------------ *)
\* C18: in the mapping that generate_social_content_with_retry returns, the
\* entry of every channel is no longer than the channel's limit, whether a
\* successful attempt stored it or the retries were exhausted.
C18_EntriesWithinLimit ==
    soc.pc = "L278" =>
        \A ch \in DOMAIN soc.generated_content :
            Len(soc.generated_content[ch]) <= StatedLimit(ch)

(* ------------------------------------------------------------------ *)
(* C19                                                                 *)
(* ------------------------------------------------------------------ *)
\* The (topic, keywords) pair handed to the call that worker w is making.
CallJob(w) == <<threads[w].a_topic, threads[w].a_keywords>>

\* The pairs that a start() call supplies.
SuppliedJobs == {<<Some(job[1]), Some(job[2])>> : job \in JobSpecs}

\* C19: the title call and the body call of an iteration are given the same
\* (topic, keywords) pair, and the pair of either call is one that a single
\* start() supplied, whatever start() calls run next to the iteration.
C19_JobConsistentInIteration ==
    \A w \in Tids :
        /\ threads[w].pc = "title_call" => CallJob(w) \in SuppliedJobs
        /\ threads[w].pc = "content_call" =>
              /\ CallJob(w) \in SuppliedJobs
              /\ threads[w].title_job = Some(CallJob(w))

\* A worker started with the first job is in the body call of an iteration
\* while a start() with the second job has written its topic and keywords.
C19_Witness ==
    \E w \in Tids, c \in Ctls :
        /\ threads[w].pc = "content_call"
        /\ CallJob(w) = <<Some("t1"), Some(<<"k1">>)>>
        /\ ctl[c].pc = "L205"
        /\ cron_topic[ctl[c].ns] = Some("t2")
        /\ cron_keywords[ctl[c].ns] = Some(<<"k2">>)

(* ------------------------------------------------------------------ *)
(* C20                                                                 *)
(* ------------------------------------------------------------------ *)
\* C20: with two sessions running start() at once, their statements
\* interleaved in any way, never more than one worker is live.
C20_OneWorkerUnderConcurrentStarts ==
    Cardinality({w \in Tids : is_alive(threads[w])}) <= 1

(* ------------------------------------------------------------------ *)
(* C21                                                                 *)
(* ------------------------------------------------------------------ *)
\* C21: after a stop() issued while a call of the worker was in flight, and
\* as long as no start() is issued, no worker begins a generation or publish
\* call: the call in flight returns and is the last one.
C21_NoCallAfterStopInCall ==
    [][\A w \in Tids :
         (hist.stop_in_call /\ hist'.stop_in_call) =>
            ~(threads'[w].pc \in CallPcs /\ threads'[w].pc # threads[w].pc)]_vars

(* ------------------------------------------------------------------ *)
(* C22                                                                 *)
(* ------------------------------------------------------------------ *)
\* C22: while generate_social_content_with_retry runs, the backend calls made
\* so far are at most Retries for each channel reached (attempt + 1 for the
\* current one), so at most Len(channels) * Retries in all; a call that
\* returns without raising is the last for its channel; a sleep is begun only
\* by a failed attempt that is not the last, and every step of the run makes
\* a call, begins a sleep or returns.
C22_BoundedCallsAndSleeps ==
    /\ [](soc.pc \in {"L264", "L274"} =>
            /\ soc.attempt < Retries
            /\ soc.calls <= (soc.ci - 1) * Retries + soc.attempt + 1)
    /\ [](soc.calls <= Len(soc.channels) * Retries)
    /\ [][(soc.pc = "L264" /\ Len(soc'.outcome) > Len(soc.outcome)
              /\ soc'.outcome[Len(soc'.outcome)] \in {"stored", "skipped"}) =>
            (soc'.pc = "L278" \/ (soc'.pc = "L264" /\ soc'.ci = soc.ci + 1))]_vars
    /\ [][soc'.sleeps # soc.sleeps =>
            \/ soc'.pc = "idle" \/ soc.pc = "idle"
            \/ /\ soc.pc = "L264" /\ soc'.pc = "L274"
               /\ soc.attempt < Retries - 1
               /\ soc'.sleeps = soc.sleeps + 1
               /\ soc'.calls = soc.calls /\ soc'.outcome = soc.outcome]_vars
    /\ [][(soc.pc \in {"L264", "L274"} /\ soc' # soc) =>
            \/ soc'.pc = "L278"
            \/ soc'.calls + soc'.sleeps > soc.calls + soc.sleeps]_vars

\* Both channels of a selection have used up their retries: six calls, four
\* sleeps, and the function is returning.
C22_Witness ==
    /\ soc.pc = "L278"
    /\ Len(soc.channels) = 2
    /\ soc.calls = 2 * Retries
    /\ soc.sleeps = 2 * (Retries - 1)

(* ------------------------------------------------------------------ *)
(* C23                                                                 *)
(* ------------------------------------------------------------------ *)
\* C23: an iteration begins at most one call of publish_blog_post, and only at
\* line 183; whatever the call returns, the worker goes to the first sleep
\* slice; and a worker that has made its attempt begins another iteration
\* (where the count starts again) only after the last slice of the interval.
C23_OnePublishPerIteration ==
    /\ [](\A w \in Tids : threads[w].attempts <= 1)
    /\ [][\A w \in Tids :
            /\ threads'[w].attempts > threads[w].attempts =>
                  (threads[w].pc = "L183" /\ threads'[w].pc = "publish_call")
            /\ (threads[w].pc = "publish_call" /\ threads'[w] # threads[w]) =>
                  (threads'[w].pc = "L193" /\ threads'[w].i = 0)
            /\ (threads[w].attempts = 1 /\ threads'[w].pc = "L175"
                   /\ threads[w].pc # "L175") =>
                  (threads[w].pc = "L196" /\ threads[w].i = Slices - 1)
            /\ (threads'[w].attempts < threads[w].attempts /\ is_alive(threads'[w])) =>
                  (threads[w].pc = "L175" /\ threads'[w].pc = "L179")]_vars

\* A worker that published in its first iteration has slept the interval and
\* begun the next iteration.
C23_Witness ==
    \E w \in Tids :
        /\ threads[w].pc = "L179"
        /\ threads[w].attempts = 0
        /\ Truthy(threads[w].blog_content)

(* ------------------------------------------------------------------ *)
(* C24                                                                 *)
(* ------------------------------------------------------------------ *)
\* C24: the interval is 360 slices of 5 seconds, 1800 seconds.  The first
\* slice follows the iteration, with i = 0; a slice (line 196) is begun only
\* from the check of line 193, which found the event clear, and slice i + 1
\* follows slice i; the worker is at line 175 for another iteration only when
\* slice 360 (i = 359) has ended, never after fewer.
C24_FullIntervalBetweenIterations ==
    /\ [](SliceLen = 5 /\ Slices = 360 /\ Slices * SliceLen = 1800)
    /\ [](\A w \in Tids : threads[w].i \in 0..359)
    /\ [][\A w \in Tids :
            LET a == threads[w]
                b == threads'[w]
            IN a.pc # b.pc =>
                 /\ b.pc = "L193" =>
                       \/ a.pc \in {"L183", "publish_call"} /\ b.i = 0
                       \/ a.pc = "L196" /\ b.i = a.i + 1
                 /\ b.pc = "L196" =>
                       (a.pc = "L193" /\ b.i = a.i /\ ~cron_stop_event[a.ns])
                 /\ b.pc = "L175" =>
                       (a.pc = "created" \/ (a.pc = "L196" /\ a.i = 359))]_vars

\* A worker is in the last slice of its interval.
C24_Witness ==
    \E w \in Tids : threads[w].pc = "L196" /\ threads[w].i = 359

(* ------------------------------------------------------------------ *)
(* C25                                                                 *)
(* ------------------------------------------------------------------ *)
\* C25: the result of limit_post_length(content, X) is a prefix of content;
\* for content longer than max_length(X) it is the first max_length
\* characters when none of them is ".", "!" or "?", and otherwise the prefix
\* that ends with the last of those marks among the first max_length
\* characters.
C25_CutAtLastMark ==
    lim.pc = "returned" =>
        LET L == max_length(lim.channel)
            n == Len(lim.result)
            marks == {k \in 1..L : k <= Len(lim.content)
                                    /\ lim.content[k] \in {".", "!", "?"}}
        IN /\ n <= Len(lim.content)
           /\ \A k \in 1..n : lim.result[k] = lim.content[k]
           /\ Len(lim.content) > L =>
                 IF marks = {} THEN n = L
                 ELSE /\ n \in marks
                      /\ \A k \in marks : k <= n

\* A text over the limit with several marks among its first max_length
\* characters was cut at the last of them, short of the limit.
C25_Witness ==
    /\ lim.pc = "returned"
    /\ Len(lim.content) > max_length(lim.channel)
    /\ Len(lim.result) < max_length(lim.channel)
    /\ lim.result[Len(lim.result)] = "!"
    /\ \E k \in 1..(Len(lim.result) - 1) : lim.result[k] = "."
    /\ \E k \in 1..(Len(lim.result) - 1) : lim.result[k] = "?"

(* ------------------------------------------------------------------ *)
(* C26                                                                 *)
(* ------------------------------------------------------------------ *)
\* C26: a click that is answered with the message of a missing input (empty
\* topic or keyword list for start; empty title, topic or keywords for the
\* one-shot and the social generation; empty selection; blank business plan)
\* makes no backend call and no publish call, starts no worker and stores
\* nothing: the threads are as they were and the session is idle; and
\* whatever is in progress has its inputs: a handler its topic, keywords (and
\* title), the social run its three fields and a selection, the plan request
\* a plan that is not blank, and a worker, from its creation on, a topic that
\* is not empty and a keyword list that is not empty.
C26_NothingRunsOnMissingInput ==
    /\ [][(hist'.refused # "no" /\ hist'.refused # hist.refused) =>
            /\ UNCHANGED <<threads, soc, wk, session_state>>
            /\ \A c \in Ctls : ctl'[c].pc = "idle"
            /\ soc.pc = "idle" /\ wk.pc = "idle"
            /\ \A w \in Tids :
                  threads[w].pc # "none" =>
                     /\ cron_topic'[threads[w].ns] = cron_topic[threads[w].ns]
                     /\ cron_keywords'[threads[w].ns] = cron_keywords[threads[w].ns]]_vars
    /\ [](\A c \in Ctls :
            ctl[c].pc # "idle" =>
               /\ hist.refused = "no"
               /\ ctl[c].topic # "" /\ ctl[c].keywords # << >>
               /\ ctl[c].pc \notin StartPcs => ctl[c].title # "")
    /\ [](soc.pc # "idle" =>
            /\ hist.refused = "no"
            /\ soc.channels # << >>
            /\ soc.main_content # None
            /\ soc.main_content[1][1] # "" /\ soc.main_content[1][2] # ""
            /\ soc.main_content[1][3] # << >>)
    /\ [](wk.pc # "idle" => hist.refused = "no" /\ Strip(wk.business_plan) # << >>)
    /\ [](\A w \in Tids :
            threads[w].pc \notin {"none", "done"} =>
               /\ cron_topic[threads[w].ns] \notin {None, Some("")}
               /\ cron_keywords[threads[w].ns] \notin {None, Some(<< >>)}
               /\ threads[w].a_topic \notin {Some("")}
               /\ threads[w].a_keywords \notin {Some(<< >>)}
               /\ threads[w].pc \in {"title_call", "content_call"} =>
                     /\ threads[w].a_topic \notin {None, Some("")}
                     /\ threads[w].a_keywords \notin {None, Some(<< >>)})

\* "Start Cron Job" was last answered with the message of line 342, and no
\* worker has ever been created.
C26_Witness ==
    /\ hist.refused = "start"
    /\ \A n \in Nids : cron_thread[n] = None /\ cron_topic[n] = None /\ cron_keywords[n] = None
    /\ \A w \in Tids : threads[w].pc = "none"
    /\ UiIdle

====
